---- MODULE Spec2Model ----
(***************************************************************************)
(* TSAR Advisor: the project engine (project.ts).  A ProjectEngine keeps   *)
(* a registry of Projects keyed by the document identity, spawns one       *)
(* analysis server per start(), performs the listen/accept handshake on    *)
(* the server's stdout, frames the socket stream with the '$' delimiter,   *)
(* decodes each frame and dispatches it to the registered providers.       *)
(*                                                                         *)
(* One document identity is modelled.  Every start() that passes its       *)
(* checks spawns the next server process; the Project that the process's   *)
(* 'listen' line creates is identified by the process number.              *)
(***************************************************************************)
EXTENDS Integers, Sequences, FiniteSets, TLC

\* ------------------------------------------------------------------ bounds
MaxProc  == 2    \* start() calls, hence server processes, in one run
MaxMsgs  == 2    \* message texts one server writes to its socket
MaxKills == 1    \* failing stdout lines one server prints
MaxSends == 3    \* Project.send calls on one Project
HighWaterMark == 2  \* frames the socket buffers before write() returns false
MaxCycles == 1   \* deactivate/activate cycles of one provider state
MaxAnswers == 3  \* answers a server gives to the requests of the renderers

Procs == 1..MaxProc

\* --------------------------------------------------------------- alphabet
delimiter == "$"
Tags      == {"D", "E", "F", "S", "U"}
REJECT    == <<"R">>

\* JSON text of a message object with a given name tag.
Text(tag) == <<"{", tag, "}">>

\* Texts a server may write: a Diagnostic with Status Success, a Diagnostic
\* with Status Error, a FunctionList, a Statistic, a well-formed object with
\* an unregistered name, and the literal REJECT.
ServerTexts == {Text(t) : t \in Tags} \cup {REJECT}

\* The object msg.Parser builds for a tag whose name is registered with it:
\* its class and, for a Diagnostic, its Status.
ParserKinds == [D |-> "Diagnostic", E |-> "Diagnostic.Error",
                F |-> "FunctionList", S |-> "Statistic"]

Messages == {ParserKinds[t] : t \in DOMAIN ParserKinds}

\* obj instanceof msg.Diagnostic
isDiagnostic(obj) ==
  obj \in {"Diagnostic", "Diagnostic.Error", "Diagnostic.Done"}

\* The functions of the analysed program and the loops of each, as a
\* FunctionList describes them, and the calls each function makes, as the
\* Functions of a CalleeFuncList describe them.
\* Function 1 calls 2; 3 and 4 call each other and 4 calls itself.
FuncIDs == {1, 2}
Loops(f) == IF f = 2 THEN {1} ELSE {}
Callees(f) ==
  CASE f = 1 -> {2} [] f = 3 -> {4} [] f = 4 -> {3, 4} [] OTHER -> {}

\* What a CalleeFuncList asks and tells about: a function or one of its
\* loops, and the statement attributes looked for.
Targets ==
  { [FuncID |-> 1, LoopID |-> 0, Attr |-> 1],
    [FuncID |-> 2, LoopID |-> 0, Attr |-> 1],
    [FuncID |-> 2, LoopID |-> 1, Attr |-> 2] }

\* Targets in a recursive call chain, and a loop that the cached function
\* does not list.
RecursiveTargets ==
  { [FuncID |-> 3, LoopID |-> 0, Attr |-> 1],
    [FuncID |-> 4, LoopID |-> 0, Attr |-> 1] }
UnknownLoopTargets == { [FuncID |-> 1, LoopID |-> 1, Attr |-> 2] }
AllTargets == Targets \cup RecursiveTargets \cup UnknownLoopTargets

\* A field a constructor leaves undefined: JSON.stringify omits it.
NoID == 0

\* What an AliasTree asks and tells about.
AliasTargets ==
  { [FuncID |-> f, LoopID |-> 1] : f \in FuncIDs \cup {NoID} }

\* Message objects with their fields, written as their JSON.
CalleeFuncListName(t) ==
  "CalleeFuncList(" \o ToString(t.FuncID) \o "," \o ToString(t.LoopID)
     \o "," \o ToString(t.Attr) \o ")"
AliasTreeName(t) ==
  "AliasTree(" \o ToString(t.FuncID) \o "," \o ToString(t.LoopID) \o ")"

CalleeFuncLists == {CalleeFuncListName(t) : t \in AllTargets}
AliasTrees == {AliasTreeName(t) : t \in AliasTargets}

\* obj instanceof msg.CalleeFuncList, msg.AliasTree, and the fields.
isCalleeFuncList(obj) == obj \in CalleeFuncLists
isAliasTree(obj) == obj \in AliasTrees
calleeFuncList(obj) == CHOOSE t \in AllTargets : CalleeFuncListName(t) = obj
aliasTree(obj) == CHOOSE t \in AliasTargets : AliasTreeName(t) = obj

\* The messages the renderers of the call graph, the alias tree and the
\* file list handle besides the FunctionList; a response names a function.
GraphMessages ==
  CalleeFuncLists
    \cup {AliasTreeName(t) : t \in {a \in AliasTargets : a.FuncID # NoID}}
    \cup {"FileList"}

\* Provider schemes in the order engine.register() received them.
Schemes == <<"tsar-main", "tsar-calleefunc">>
SchemeSet == {Schemes[i] : i \in 1..Len(Schemes)}

\* The providers of the call graph, the alias tree and the file list.
GraphSchemes == <<"tsar-calleefunc", "tsar-aliastree", "tsar-filelist">>

\* The providers a transformation command works with, and the text of the
\* Diagnostic that reports the end of a transformation.
TransformSchemes == <<"tsar-main", "tsar-transform">>
TransformTags == {"Done"}

AllSchemes ==
  SchemeSet \cup {GraphSchemes[i] : i \in 1..Len(GraphSchemes)}
            \cup {TransformSchemes[i] : i \in 1..Len(TransformSchemes)}

Outcomes == {"ok", "throw", "reject"}

\* A provider that caches whatever message is pending.
_needToHandle_any(scheme, resp) == TRUE

\* _needToHandle of the provider of a scheme: the summary handles a
\* Statistic, the call graph a FunctionList (and a CalleeFuncList).
_needToHandle(scheme, resp) ==
  CASE scheme = "tsar-main" -> resp = "Statistic"
    [] scheme = "tsar-calleefunc" ->
         isCalleeFuncList(resp) \/ resp = "FunctionList"
    [] scheme = "tsar-aliastree" ->
         isAliasTree(resp) \/ resp = "FunctionList"
    [] OTHER -> FALSE

\* ------------------------------------------------------------ pure helpers
Last(s)  == s[Len(s)]
Kinds(seq) == {seq[i] : i \in 1..Len(seq)}
Front(s) == SubSeq(s, 1, Len(s) - 1)

RECURSIVE Flatten(_)
Flatten(ss) == IF ss = <<>> THEN <<>> ELSE Head(ss) \o Flatten(Tail(ss))

\* String.prototype.split(delimiter): the segments between delimiters; a
\* string of n delimiters has n + 1 segments, some possibly empty.
RECURSIVE split(_)
split(s) ==
  IF \A i \in 1..Len(s) : s[i] # delimiter THEN <<s>>
  ELSE LET k == CHOOSE i \in 1..Len(s) :
                  s[i] = delimiter /\ \A j \in 1..(i - 1) : s[j] # delimiter
       IN <<SubSeq(s, 1, k - 1)>> \o split(SubSeq(s, k + 1, Len(s)))

\* Parser.fromJSON: JSON.parse throws on malformed text; an object whose
\* name is not registered yields undefined; otherwise the message object.
fromJSON(json) ==
  IF ~(Len(json) = 3 /\ json[1] = "{" /\ json[3] = "}"
       /\ json[2] \in Tags \cup GraphMessages \cup TransformTags)
    THEN "SyntaxError"
  ELSE IF json[2] \in TransformTags THEN "Diagnostic.Done"
  ELSE IF json[2] \in DOMAIN ParserKinds THEN ParserKinds[json[2]]
  ELSE IF json[2] \in GraphMessages THEN json[2]
  ELSE "undefined"

\* JSON.stringify(request) + delimiter, as Project.send builds it.
requestString(request) == Text(request) \o <<delimiter>>

\* ------------------------------------------------- messages (messages.ts)
\* A JavaScript object: its prototype and its properties.  A property is
\* <<>> when it is undefined or absent and <<value>> otherwise; numbers and
\* enum members are written as their decimal text.  An array [a, b] is
\* <<"array", a, b>>, an object {Yes: a, No: b} is <<"object", a, b>>.
NoObject == [proto |-> "none", name |-> <<>>, Status |-> <<>>,
             Error |-> <<>>, Warning |-> <<>>, Terminal |-> <<>>,
             Functions |-> <<>>, Loops |-> <<>>, Variables |-> <<>>]

\* enum Status {Success, Error, Invalid}: Status[0] = "Success" and
\* Status["Success"] = 0; any other key gives undefined.
Status(key) ==
  CASE key = <<"0">> -> <<"Success">> [] key = <<"Success">> -> <<"0">>
    [] key = <<"1">> -> <<"Error">>   [] key = <<"Error">> -> <<"1">>
    [] key = <<"2">> -> <<"Invalid">> [] key = <<"Invalid">> -> <<"2">>
    [] OTHER -> <<>>

\* Values of class Diagnostic.
Diagnostics ==
  { [NoObject EXCEPT !.proto = "Diagnostic", !.Status = <<st>>,
                     !.Error = <<e>>, !.Warning = <<w>>, !.Terminal = t] :
      st \in {"0", "1", "2"}, e \in {<<>>, <<"e">>},
      w \in {<<>>, <<"w">>}, t \in {<<>>, <<"out">>} }

\* Values of class Statistic; Loops and Variables are pairs indexed by
\* Analysis.Yes and Analysis.No, or undefined.
Pairs == {<<>>, <<<<"array", "0", "0">>>>, <<<<"array", "1", "2">>>>}

Statistics ==
  { [NoObject EXCEPT !.proto = "Statistic", !.Functions = <<f>>,
                     !.Loops = l, !.Variables = v] :
      f \in {"1", "2"}, l \in Pairs, v \in Pairs }

\* The result of a call: the value returned or the error thrown.
Returned(obj) == [thrown |-> "none", value |-> obj]
Thrown(err)   == [thrown |-> err, value |-> NoObject]

\* Diagnostic.toJSON: a plain object with the name and the own properties,
\* Status replaced by its name.
Diagnostic_toJSON(m) ==
  Returned([m EXCEPT !.proto = "Object", !.name = <<"Diagnostic">>,
                     !.Status = Status(m.Status)])

\* Diagnostic.fromJSON of the object the reviver gets for the key "".
Diagnostic_fromJSON(json) ==
  Returned([json EXCEPT !.proto = "Diagnostic",
                        !.Status = Status(json.Status)])

\* Statistic.toJSON: json.Loops = undefined, then json.Loops[...] = ... when
\* this.Loops is defined, which throws; the same for Variables.
Statistic_toJSON(m) ==
  IF m.Loops # <<>> \/ m.Variables # <<>>
    THEN Thrown("TypeError")
    ELSE Returned([m EXCEPT !.proto = "Object", !.name = <<"Statistic">>,
                            !.Loops = <<>>, !.Variables = <<>>])

\* json[key] of an {Yes, No} object read into the array of a Statistic.
fromAnalysis(prop) == <<<<"array", prop[1][2], prop[1][3]>>>>

\* Statistic.fromJSON of the object the reviver gets: json.Loops[...] and
\* json.Variables[...] are read without a test.
Statistic_fromJSON(json) ==
  IF json.Loops = <<>> \/ json.Variables = <<>>
    THEN Thrown("TypeError")
    ELSE Returned([json EXCEPT !.proto = "Statistic",
                               !.Loops = fromAnalysis(json.Loops),
                               !.Variables = fromAnalysis(json.Variables)])

\* m.toJSON() as JSON.stringify calls it.
toJSON(m) ==
  IF m.proto = "Diagnostic" THEN Diagnostic_toJSON(m) ELSE Statistic_toJSON(m)

\* JSON.stringify followed by JSON.parse: the prototype is Object and
\* undefined properties are gone; an error of toJSON passes through.
stringify(m) == toJSON(m)

\* Parser.fromJSON(text) for the text of a plain object: the class is
\* looked up by obj.name and its fromJSON revives the object.
Parser_fromJSON(json) ==
  CASE json.name = <<"Diagnostic">> -> Diagnostic_fromJSON(json)
    [] json.name = <<"Statistic">> -> Statistic_fromJSON(json)
    [] OTHER -> Returned(NoObject)

NoMessage == [stage |-> "none", m |-> NoObject, text |-> Returned(NoObject),
              obj |-> Returned(NoObject)]

\* --------------------------------------------------------------- identity
\* URIs of documents and of the links the commands are run with.
Paths     == {"/a.c", "/b.c"}
Queries   == {"", "x", "y"}
Fragments == {"", "f"}
Uris      == [path : Paths, query : Queries, fragment : Fragments]

\* vscode.Uri.with(change): a component that change does not name is
\* kept; null (or the empty string) resets it.
uriWith(uri, change) ==
  [c \in DOMAIN uri |->
     IF c \in DOMAIN change
       THEN IF change[c] = "null" THEN "" ELSE change[c]
       ELSE uri[c]]

\* vscode.Uri.toString().
toString(uri) ==
  uri.path \o (IF uri.query # "" THEN "?" \o uri.query ELSE "")
           \o (IF uri.fragment # "" THEN "#" \o uri.fragment ELSE "")

\* ProjectEngine._projectID.
_projectID(uri) == toString(uriWith(uri, [query |-> "null"]))

\* ProjectEngine.isActive and ProjectEngine.project on the Map M; the
\* Project is given by its uri, <<>> is undefined.
isActive(M, uri) == _projectID(uri) \in DOMAIN M
project(M, uri) == IF isActive(M, uri) THEN <<M[_projectID(uri)]>> ELSE <<>>

\* ProjectEngine._stop on the Map M: delete the key of the Project found.
stopUri(M, uri) ==
  IF project(M, uri) = <<>> THEN M
  ELSE [id \in DOMAIN M \ {_projectID(project(M, uri)[1])} |-> M[id]]

\* ------------------------------------------------------------------ state
VARIABLES
  projects,   \* ProjectEngine._projects for the identity: 0 or a Project
  starts,     \* number of start() calls so far
  spawned,    \* number of server processes spawned so far
  prj,        \* per process: the server, its socket and its Project
  lastStart,  \* the latest start() call and the promise it returned
  byID,       \* ProjectEngine._projects by key, when the URIs handed to
              \* the engine differ in their components: key -> project.uri
  _providers, \* ProjectEngine._providers: the schemes registered, in order
  message     \* a message object on its way through toJSON, JSON.stringify
              \* and Parser.fromJSON

vars == <<projects, starts, spawned, prj, lastStart, byID, _providers, message>>

\* Nothing spawned yet for this slot.
NoProject ==
  [ server       |-> "none",      \* none | running | killed | closed
    kills        |-> 0,           \* calls of server.kill() by dispose
    catchKills   |-> 0,           \* calls of server.kill() by onServerData
    promise      |-> "none",      \* none | pending | resolved | rejected
    created      |-> FALSE,       \* closure variable 'project' is assigned
    client       |-> "none",      \* none | open | ended | destroyed
    ends         |-> 0,           \* calls of client.end()
    isDisposed   |-> FALSE,
    providers    |-> <<>>,        \* Project._providers, insertion order
    stateDispose |-> [s \in AllSchemes |-> 0],  \* calls of state.dispose()
    listener     |-> FALSE,       \* onDidDisposeContent -> engine.stop
    toolRun      |-> FALSE,       \* the tsar.start command ran the tool
    active       |-> [s \in AllSchemes |-> FALSE],   \* state._isActive
    hasPanel     |-> [s \in AllSchemes |-> FALSE],   \* state._hasPanel
    data         |-> [s \in AllSchemes |-> "undefined"],  \* state._data
    shown        |-> [s \in AllSchemes |-> "none"],  \* panel.webview.html
    passes       |-> [s \in AllSchemes |-> 0],   \* provider.update calls
    cycles       |-> [s \in AllSchemes |-> 0],   \* active = false; = true
    Target       |-> <<>>,        \* call graph: data.Target, if defined
    CallGraph    |-> <<>>,        \* call graph: data.CallGraph, if defined
    Complete     |-> FALSE,       \* call graph: data.Complete
    AliasTree    |-> <<>>,        \* alias tree: data.AliasTree, if defined
    commands     |-> <<>>,        \* executeCommand calls not yet run
    progress     |-> FALSE,       \* withProgress waits for the state of the
                                  \* transformation to become inactive
    errorMessages |-> 0,          \* error boxes _diagnostic has shown
    rawResponse  |-> <<>>,
    responses    |-> <<>>,
    newResponse  |-> 0,
    written      |-> <<>>,        \* frames buffered in the socket
    accepted     |-> <<>>,        \* frames the transport has taken
    needDrain    |-> FALSE,       \* write() returned false, 'drain' is due
    onDrain      |-> <<>>,        \* requests of the once('drain') listeners
    internalErrors |-> 0,         \* calls of _internalError for this project
    \* history
    sent         |-> <<>>,        \* texts the server wrote, in order
    wire         |-> <<>>,        \* characters written and not yet received
    decoded      |-> <<>>,        \* texts handed to Parser.fromJSON
    badFrames    |-> <<>>,        \* frames _onResponse threw an Error for
    calls        |-> <<>>,        \* provider.update invocations
    requests     |-> <<>>,        \* requests callers sent while writable
    sendCalls    |-> 0,           \* calls of send() by commands
    drains       |-> 0,           \* 'drain' events emitted
    stopped      |-> FALSE,       \* a stop request was aimed at it
    closedLive   |-> FALSE,       \* its process closed while it was
                                  \* registered and not disposed
    lateLog      |-> 0,           \* log entries appended after dispose
    handshakeError |-> "none",    \* what failed while the promise was
                                  \* pending: none | status | accept | connect
    snapshot     |-> <<>>,        \* the engine's schemes when it was created
    overlap      |-> FALSE ]      \* spawned while an earlier server ran
                                  \* whose Project was not disposed

\* ------------------------------------------------- Project (project.ts)
\* Project.response: the first response not yet popped, or undefined.
response(P) ==
  IF P.newResponse < Len(P.responses)
    THEN P.responses[P.newResponse + 1] ELSE "undefined"

\* A pop that keeps only the response it has just evaluated.
_pop_last(P) ==
  IF P.newResponse < Len(P.responses)
    THEN [P EXCEPT !.responses = <<Last(@)>>, !.newResponse = 1] ELSE P

\* Project._pop: advance the cursor when a response is pending.
_pop(P) ==
  IF P.newResponse < Len(P.responses)
    THEN [P EXCEPT !.newResponse = @ + 1] ELSE P

\* A providerState that fetches the state from the engine's registry.
hasState_engine(P, scheme) ==
  /\ P.created
  /\ ~P.isDisposed
  /\ \E i \in 1..Len(_providers) : _providers[i] = scheme

\* Project.providerState(scheme) is defined.
hasState(P, scheme) ==
  \E i \in 1..Len(P.providers) : P.providers[i] = scheme

\* net.Socket.write: after end() or destroy() nothing is written and the
\* socket emits 'error', which the engine routes to _internalError;
\* otherwise the data is queued in order and the call returns false once
\* the queue has reached the high-water mark.
write(P, data) ==
  IF P.client # "open"
    THEN [P EXCEPT !.internalErrors = @ + 1]
    ELSE [P EXCEPT !.written = Append(@, data),
                   !.needDrain = @ \/ (Len(P.written) + 1 >= HighWaterMark)]

\* The send of an earlier revision: when write() returns false the request
\* is sent again on 'drain', although the socket has queued it already.
send_retry(P, request) ==
  LET W == write(P, requestString(request)) IN
  IF P.client = "open" /\ Len(W.written) >= HighWaterMark
    THEN [W EXCEPT !.onDrain = Append(@, request)]
    ELSE W

\* Project.send: one write of JSON.stringify(request) + delimiter; the
\* result of write() is ignored (the retry on 'drain' is commented out).
send(P, request) == write(P, requestString(request))

\* A command calls project.send(request).
Requested(P, request) ==
  [P EXCEPT !.sendCalls = @ + 1,
            !.requests = IF P.client = "open" THEN Append(@, request) ELSE @]

\* A setter that leaves the state as it is.
hide_not(P, scheme) == P

\* The panel of a state is disposed and the state is no longer active, as
\* the setter of the base class does for active = false.
hide(P, scheme) ==
  [P EXCEPT !.active[scheme] = FALSE,
            !.hasPanel[scheme] = FALSE,
            !.shown[scheme] = IF P.hasPanel[scheme] THEN "none" ELSE @]

\* A deactivation of the call graph that keeps what was built.
clearGraph_keep(P) == P

\* The setter of CalleeFuncProviderState for active = false, before it
\* calls the setter of the base class: with data, Target and CallGraph
\* become undefined and Complete false; Functions stay.
clearGraph(P) ==
  IF P.data["tsar-calleefunc"] # "undefined"
    THEN [P EXCEPT !.Target = <<>>, !.CallGraph = <<>>, !.Complete = FALSE]
    ELSE P

\* A state that sends every request twice.
sendRequest_twice(P, request) ==
  send(Requested(send(Requested(P, request), request), request), request)

\* project.send(request) called by a state.
sendRequest(P, request) == send(Requested(P, request), request)

\* CalleeFuncProviderState.onResponse for a CalleeFuncList.  Without a list
\* of functions it remembers the target, runs the commands that ask for
\* the functions and the loops, and repeats the request.  With one it adds
\* the node of the response to the graph and asks for the first callee
\* that has no node yet; when none is left the graph is complete.  A loop
\* that the function does not list ends in a TypeError (this._data.target).
calleeOnResponse(P, h) ==
  LET s == "tsar-calleefunc"
      t == calleeFuncList(h)
  IN
  IF P.data[s] # "Functions"
    THEN [p |-> sendRequest(
                  [P EXCEPT !.data[s] = "Target",
                            !.Target = <<t>>,
                            !.Complete = FALSE,
                            !.CallGraph = <<{}>>,
                            !.commands = @ \o <<"tsar.function.list",
                                                "tsar.loop.tree">>],
                  CalleeFuncListName(t)),
          data |-> "undefined"]
  ELSE
    LET fresh  == P.Target = <<>>
        T      == IF fresh THEN t ELSE P.Target[1]
        G0     == IF fresh THEN {} ELSE P.CallGraph[1]
        isLoop == fresh /\ t.LoopID # 0
        node   == <<t.FuncID, IF isLoop THEN t.LoopID ELSE 0>>
        G      == G0 \cup {node}
        missing == {c \in UNION {Callees(n[1]) : n \in G} : <<c, 0>> \notin G}
        Q      == [P EXCEPT !.Target = <<T>>, !.CallGraph = <<G>>]
    IN
    IF isLoop /\ t.LoopID \notin Loops(t.FuncID)
      THEN [p |-> [P EXCEPT !.Target = <<T>>, !.CallGraph = <<{}>>],
            data |-> "TypeError"]
    ELSE IF missing # {}
      THEN LET c == CHOOSE c \in missing : \A d \in missing : c <= d
               r == CalleeFuncListName(
                      [FuncID |-> c, LoopID |-> 0, Attr |-> T.Attr])
           IN [p |-> sendRequest(Q, r), data |-> "undefined"]
    ELSE [p |-> [Q EXCEPT !.Complete = TRUE], data |-> "graph"]

\* AliasTreeProviderState.onResponse for an AliasTree.  Without a list of
\* functions it runs the commands that ask for them and sends a new
\* AliasTree request: 'request.FuncID == response.FuncID' compares and
\* assigns nothing, so only LoopID is taken from the response.
aliasOnResponse(P, h) ==
  LET s == "tsar-aliastree" IN
  IF P.data[s] # "Functions"
    THEN LET r == AliasTreeName([FuncID |-> NoID,
                                 LoopID |-> aliasTree(h).LoopID])
         IN [p |-> sendRequest(
                     [P EXCEPT !.commands = @ \o <<"tsar.function.list",
                                                   "tsar.loop.tree">>], r),
             data |-> "undefined"]
    ELSE [p |-> [P EXCEPT !.AliasTree = <<h>>], data |-> "aliastree"]

\* state.onResponse(h, project), where h is the pending response when the
\* provider handles its kind and undefined otherwise.  The state of the
\* summary keeps the response as its data.  The states of the call graph
\* and of the alias tree deactivate themselves on a FunctionList (which
\* disposes the panel), keep the functions alone and resolve undefined;
\* for undefined they resolve their data when it is complete.
\* Yields the Project and the data the promise resolves.
onResponse(P, scheme, h) ==
  IF scheme = "tsar-main"
    THEN LET Q == IF h # "undefined" THEN [P EXCEPT !.data[scheme] = h]
                                     ELSE P
         IN [p |-> Q, data |-> Q.data[scheme]]
  ELSE IF scheme = "tsar-calleefunc"
    THEN IF h = "FunctionList"
           THEN [p |-> [hide(clearGraph(P), scheme) EXCEPT
                          !.data[scheme] = "Functions",
                          !.Target = <<>>,
                          !.CallGraph = <<>>,
                          !.Complete = FALSE],
                 data |-> "undefined"]
         ELSE IF isCalleeFuncList(h) THEN calleeOnResponse(P, h)
         ELSE [p |-> P,
               data |-> IF P.data[scheme] # "undefined" /\ P.Complete
                          THEN "graph" ELSE "undefined"]
  ELSE
    IF h = "FunctionList"
      THEN [p |-> [hide(P, scheme) EXCEPT !.data[scheme] = "Functions",
                                          !.AliasTree = <<>>],
            data |-> "undefined"]
    ELSE IF isAliasTree(h) THEN aliasOnResponse(P, h)
    ELSE [p |-> P,
          data |-> IF P.data[scheme] = "Functions" /\ P.AliasTree # <<>>
                     THEN "aliastree" ELSE "undefined"]

\* Whether a field of the data of the call graph state is defined.  The
\* data has the fields Target, Complete, Functions and CallGraph.
calleeField(P, field) ==
  CASE field = "Functions" -> P.data["tsar-calleefunc"] = "Functions"
    [] field = "Target"    -> P.Target # <<>>
    [] field = "CallGraph" -> P.CallGraph # <<>>
    [] field = "Complete"  -> P.data["tsar-calleefunc"] # "undefined"
    [] OTHER -> FALSE

\* state.actual(request) of the state of a scheme; "F" is a FunctionList
\* request.  The call graph state looks for data.functions, the alias
\* tree state for data.Functions, the file list state for its list.
actual(P, scheme, request) ==
  CASE scheme = "tsar-calleefunc" ->
         /\ request = "F"
         /\ P.data[scheme] # "undefined"
         /\ calleeField(P, "functions")
    [] scheme = "tsar-aliastree" ->
         request = "F" /\ P.data[scheme] = "Functions"
    [] scheme = "tsar-filelist" ->
         request = "FileList" /\ P.data[scheme] = "Files"
    [] OTHER -> FALSE

\* FileListProvider.update: a FileList replaces the list of files of the
\* state; every other response is ignored.  Nothing is rendered.
fileListUpdate(P) ==
  IF response(P) = "FileList"
    THEN [P EXCEPT !.data["tsar-filelist"] = "Files"]
    ELSE P

\* An update of the transformation that never ends it.
transformUpdate_keep(P) == P

\* TransformationProvider.update: nothing while the state is inactive; a
\* Diagnostic whose Status is Done sets the state inactive, which fires
\* onDidChangeActiveState: the promise of withProgress resolves and its
\* continuation runs the tsar.stop command.
transformUpdate(P) ==
  IF ~P.active["tsar-transform"] THEN P
  ELSE IF response(P) = "Diagnostic.Done"
    THEN [P EXCEPT !.active["tsar-transform"] = FALSE,
                   !.commands = IF P.progress THEN Append(@, "tsar.stop")
                                              ELSE @]
  ELSE P

\* An update that draws without asking whether the state is active.
providerUpdateAs_always(P, scheme, out) ==
  LET Q == [P EXCEPT !.passes[scheme] = @ + 1] IN
  IF out = "throw" THEN Q
  ELSE IF scheme = "tsar-filelist" THEN fileListUpdate(Q)
  ELSE IF scheme = "tsar-transform" THEN transformUpdate(Q)
  ELSE
    LET resp == response(Q)
        h == IF resp # "undefined" /\ _needToHandle(scheme, resp)
               THEN resp ELSE "undefined"
        r == onResponse(Q, scheme, h)
    IN
    IF out = "ok" /\ r.data # "TypeError"
      THEN [r.p EXCEPT !.hasPanel[scheme] = TRUE,
                       !.shown[scheme] =
                          IF r.data # "undefined" THEN r.data ELSE "wait"]
      ELSE IF r.data = "TypeError"
        THEN [r.p EXCEPT !.internalErrors = @ + 1]
      ELSE r.p

\* ProjectWebviewProvider.update(project) with provideContent.  out says
\* how the call ends: "throw" leaves update before the state is touched,
\* "reject" is a content promise rejected after onResponse, handled by the
\* provider itself, "ok" renders when the state is active: the panel is
\* created on demand and shows the resolved data, or the wait page.  An
\* exception inside onResponse rejects its promise: update fires
\* onDidAriseInternalError, which the engine routes to _internalError.
providerUpdateAs(P, scheme, out) ==
  LET Q == [P EXCEPT !.passes[scheme] = @ + 1] IN
  IF out = "throw" THEN Q
  ELSE IF scheme = "tsar-filelist" THEN fileListUpdate(Q)
  ELSE IF scheme = "tsar-transform" THEN transformUpdate(Q)
  ELSE
    LET resp == response(Q)
        h == IF resp # "undefined" /\ _needToHandle(scheme, resp)
               THEN resp ELSE "undefined"
        r == onResponse(Q, scheme, h)
    IN
    IF out = "ok" /\ r.data # "TypeError" /\ r.p.active[scheme]
      THEN [r.p EXCEPT !.hasPanel[scheme] = TRUE,
                       !.shown[scheme] =
                          IF r.data # "undefined" THEN r.data ELSE "wait"]
      ELSE IF r.data = "TypeError"
        THEN [r.p EXCEPT !.internalErrors = @ + 1]
      ELSE r.p

\* state.provider.update(project) called outside a dispatch: it throws a
\* TypeError when the Project has no state of the scheme any more.
providerUpdate(P, scheme) ==
  providerUpdateAs(P, scheme, IF hasState(P, scheme) THEN "ok" ELSE "throw")

\* The calls of forEach in Project.update, providers i..n in Map order.
RECURSIVE updateProviders(_, _, _, _)
updateProviders(P, i, n, outs) ==
  IF i > n THEN P
  ELSE updateProviders(
         providerUpdateAs(P, P.providers[i], outs[P.providers[i]]),
         i + 1, n, outs)

\* Index of the first provider whose update throws, or 0.
FirstThrow(provs, outs) ==
  IF \E i \in 1..Len(provs) : outs[provs[i]] = "throw"
    THEN CHOOSE i \in 1..Len(provs) :
           outs[provs[i]] = "throw"
           /\ \A j \in 1..(i - 1) : outs[provs[j]] # "throw"
    ELSE 0

\* Project.update: push the response, call provider.update of every state
\* in Map order, pop.  outs[s] is how the update of scheme s ends: it
\* returns, its promise is rejected (handled inside the provider), or it
\* throws, which leaves forEach and update before _pop runs.
update(P, obj, outs) ==
  LET R  == [P EXCEPT !.responses = Append(@, obj),
                      !.lateLog = IF P.isDisposed THEN @ + 1 ELSE @]
      k  == FirstThrow(R.providers, outs)
      n  == IF k = 0 THEN Len(R.providers) ELSE k
      cs == [i \in 1..n |->
               [scheme |-> R.providers[i], idx |-> Len(R.responses),
                seen |-> response(R), out |-> outs[R.providers[i]]]]
      C  == [updateProviders(R, 1, n, outs) EXCEPT !.calls = @ \o cs]
  IN
  IF k = 0 THEN [p |-> _pop(C), thrown |-> FALSE]
           ELSE [p |-> C, thrown |-> TRUE]

\* Project.register: Map.set keeps the position of a key already present.
register(P, scheme) ==
  IF \E i \in 1..Len(P.providers) : P.providers[i] = scheme
    THEN P
    ELSE [P EXCEPT !.providers = Append(@, scheme)]

\* Project.spliceRawResponse / Project.extractRawResponse.
\* A splice that keeps only the newest segment.
spliceRawResponse_replace(P, chunk) == [P EXCEPT !.rawResponse = chunk]

spliceRawResponse(P, chunk) == [P EXCEPT !.rawResponse = @ \o chunk]
extractRawResponse(P) == [P EXCEPT !.rawResponse = <<>>]

\* Project.dispose without the callbacks of the disposed states.
dispose(P) ==
  IF P.isDisposed THEN P
  ELSE [P EXCEPT
         !.isDisposed = TRUE,
         !.stateDispose = [s \in AllSchemes |->
            IF hasState(P, s) THEN @[s] + 1 ELSE @[s]],
         !.providers = <<>>,
         !.ends = @ + 1,
         !.client = IF @ = "open" THEN "ended" ELSE @,
         !.kills = @ + 1,
         !.server = IF @ = "running" THEN "killed" ELSE @,
         !.hasPanel = [s \in AllSchemes |-> IF hasState(P, s) THEN FALSE
                                                            ELSE @[s]],
         !.shown = [s \in AllSchemes |->
                      IF hasState(P, s) /\ P.hasPanel[s] THEN "none"
                                                         ELSE @[s]]]

\* Disposing the summary state's panel fires onDidDisposeContent; when the
\* tsar.start command attached its listener this calls engine.stop(project).
FiresStop(P) == ~P.isDisposed /\ P.hasPanel["tsar-main"] /\ P.listener

\* ------------------------------------------ ProjectEngine._onResponse
\* A Diagnostic of Status Error that ends the connection.
_diagnostic_fatal(P, diag) ==
  IF diag = "Diagnostic.Error"
    THEN [P EXCEPT !.errorMessages = @ + 1, !.client = "destroyed"]
    ELSE P

\* What _onResponse does with a Diagnostic of Status Error or Invalid:
\* _diagnostic shows error messages; it ends nothing.
_diagnostic(P, diag) ==
  IF diag = "Diagnostic.Error" THEN [P EXCEPT !.errorMessages = @ + 1] ELSE P

\* The for-loop over the complete frames of one chunk, from frame i on.
\* REJECT, a text JSON.parse refuses, an unregistered name and a throwing
\* provider all end in the catch clause (err); a Diagnostic ends the loop
\* with a return.
RECURSIVE forData(_, _, _, _)
\* A loop that dispatches what the parser returned before testing it.
forData_late(P, array, i, outs) ==
  IF i > Len(array) THEN [p |-> P, err |-> FALSE]
  ELSE
    LET data == array[i] IN
    IF data = REJECT
      THEN [p |-> [P EXCEPT !.badFrames = Append(@, data)], err |-> TRUE]
    ELSE
      LET Q   == [P EXCEPT !.decoded = Append(@, data)]
          obj == fromJSON(data)
          u   == update(Q, obj, outs)
      IN
      IF obj \in {"SyntaxError", "undefined"}
        THEN [p |-> [u.p EXCEPT !.badFrames = Append(@, data)], err |-> TRUE]
      ELSE IF u.thrown THEN [p |-> u.p, err |-> TRUE]
      ELSE IF isDiagnostic(obj)
        THEN [p |-> _diagnostic(u.p, obj), err |-> FALSE]
      ELSE forData(u.p, array, i + 1, outs)

forData(P, array, i, outs) ==
  IF i > Len(array) THEN [p |-> P, err |-> FALSE]
  ELSE
    LET data == array[i] IN
    IF data = REJECT
      THEN [p |-> [P EXCEPT !.badFrames = Append(@, data)], err |-> TRUE]
    ELSE
      LET Q   == [P EXCEPT !.decoded = Append(@, data)]
          obj == fromJSON(data)
      IN
      IF obj \in {"SyntaxError", "undefined"}
        THEN [p |-> [Q EXCEPT !.badFrames = Append(@, data)], err |-> TRUE]
      ELSE
        LET u == update(Q, obj, outs) IN
        IF u.thrown THEN [p |-> u.p, err |-> TRUE]
        ELSE IF isDiagnostic(obj)
          THEN [p |-> _diagnostic(u.p, obj), err |-> FALSE]
        ELSE forData(u.p, array, i + 1, outs)

\* The frames of a chunk that are complete, given the split segments and
\* the buffered prefix: the first segment is prefixed with the raw buffer.
withRaw(P, array) == <<P.rawResponse \o array[1]>> \o Tail(array)

\* _onResponse(project, client, response) for one 'data' event.
_onResponse(P, resp, outs) ==
  LET array0 == split(resp)
      array  == IF Last(array0) = <<>> THEN Front(array0) ELSE array0
      ends   == resp # <<>> /\ Last(resp) = delimiter
  IN
  IF Len(array) = 0 THEN P
  ELSE IF ~ends /\ Len(array) = 1 THEN spliceRawResponse(P, array[1])
  ELSE
    LET frames == IF ends THEN withRaw(P, array)
                          ELSE Front(withRaw(P, array))
        B == IF ends THEN extractRawResponse(P)
                     ELSE spliceRawResponse(extractRawResponse(P),
                                            Last(array))
        r == forData(B, frames, 1, outs)
    IN
    IF r.err
      THEN [r.p EXCEPT !.internalErrors = @ + 1, !.client = "destroyed"]
      ELSE r.p

\* --------------------------------- the log and the user-visible actions
\* What each failure path writes to the log and shows to the user, in the
\* order of its statements.
\* _internalError(err): the log entry, then the error box.
_internalErrorEvents == <<"log", "showErrorMessage">>

\* The 'data' listener logs the chunk and calls _onResponse, whose
\* _diagnostic shows the error box of a Diagnostic with Status Error.
errorDiagnosticEvents == <<"log", "showErrorMessage">>

\* onReject(reason, uri): log.Error.active, then the reason is logged and
\* shown.
onRejectEvents == <<"log", "log", "showErrorMessage">>

\* start() with the Project already registered: the warning box, then the
\* update of the summary; nothing is written to the log.
alreadyActiveEvents == <<"showWarningMessage", "update">>

\* ProjectEngine._stop and the Project.dispose it calls, on the engine
\* state S = [projects, prj].  Disposing a state whose panel is open fires
\* onDidDisposeContent, whose listener calls engine.stop again while the
\* first dispose is still running.
RECURSIVE _stop(_), disposeProject(_, _), _stop_keep(_)
\* A _stop that keeps the entry of the Project it disposes.
_stop_keep(S) ==
  IF S.projects = 0 THEN S
  ELSE [disposeProject([S EXCEPT !.projects = 0], S.projects)
          EXCEPT !.projects = S.projects]

_stop(S) ==
  IF S.projects = 0 THEN S
  ELSE disposeProject([S EXCEPT !.projects = 0], S.projects)

disposeProject(S, q) ==
  IF S.prj[q].isDisposed THEN S
  ELSE LET fire == FiresStop(S.prj[q])
           T    == [S EXCEPT !.prj[q] = dispose(@)]
       IN IF fire THEN _stop(T) ELSE T

\* state.active = is on the state of a scheme of Project q.  Deactivating
\* disposes the panel, which fires onDidDisposeContent: on the summary
\* state the tsar.start command listens and stops the project.  Then
\* onDidChangeActiveState fires, and the listener of Project.register
\* calls provider.update when the state became active.
setActive(S, q, scheme, is) ==
  LET P == IF scheme = "tsar-calleefunc" /\ ~is THEN clearGraph(S.prj[q])
                                                ELSE S.prj[q]
  IN
  IF is
    THEN [S EXCEPT !.prj[q] =
            providerUpdate([P EXCEPT !.active[scheme] = TRUE], scheme)]
    ELSE
      LET fire == P.hasPanel[scheme] /\ scheme = "tsar-main" /\ P.listener
          T == [S EXCEPT !.prj[q] =
                  [P EXCEPT !.active[scheme] = FALSE,
                            !.hasPanel[scheme] = FALSE,
                            !.shown[scheme] =
                               IF P.hasPanel[scheme] THEN "none" ELSE @,
                            !.stopped = @ \/ fire]]
      IN IF fire THEN _stop(T) ELSE T

Engine == [projects |-> projects, prj |-> prj]

SetEngine(S) == projects' = S.projects /\ prj' = S.prj

\* Handshake lines the server may print on stdout.
Statuses == {"start", "listen", "accept", "error", "send"}

\* The catch clause of onServerData: reject, server.kill(); the variable
\* client is local to the invocation and set only by the 'listen' branch.
onServerDataCatch(P) ==
  [P EXCEPT !.promise = IF @ = "pending" THEN "rejected" ELSE @,
            !.handshakeError = IF P.promise = "pending" THEN "status" ELSE @,
            !.catchKills = @ + 1,
            !.server = IF @ = "running" THEN "killed" ELSE @]

\* The 'listen' branch: connect, construct the Project, register a state
\* of every provider, in the order of engine.register().
RECURSIVE registerAll(_, _)
registerAll(P, i) ==
  IF i > Len(_providers) THEN P
  ELSE registerAll(register(P, _providers[i]), i + 1)

onListening(P) ==
  registerAll([P EXCEPT !.client = "open", !.created = TRUE,
                        !.snapshot = _providers], 1)

\* An 'accept' line resolves whatever the closure holds.
onConnection_any(P) ==
  [P EXCEPT !.promise = IF @ = "pending" THEN "resolved" ELSE @]

\* The 'accept' branch: project.uri is read before resolve(project), so
\* without a 'listen' before it a TypeError takes it to the catch clause.
onConnection(P) ==
  IF P.created
    THEN [P EXCEPT !.promise = IF @ = "pending" THEN "resolved" ELSE @]
    ELSE [onServerDataCatch(P) EXCEPT
            !.handshakeError = IF P.promise = "pending" THEN "accept" ELSE @]

\* What start() is called with: a document that passes every check, an
\* untitled one, one of an unsupported language, one whose project
\* directory exists as a file, and one for which no server is installed.
Docs == {"ok", "untitled", "language", "notDirectory", "noServer"}

NoStart == [doc |-> "none", registered |-> FALSE, promise |-> "none",
            proc |-> 0]

\* start(doc, tool).  With a Project registered the executor warns, updates
\* the summary and returns: neither resolve nor reject is called or kept.
\* A failing check rejects inside the call.  Otherwise a server is spawned
\* and the promise is settled by its handshake.
Start(doc) ==
  /\ starts < MaxProc
  /\ UNCHANGED <<byID, _providers, message>>
  /\ doc = "untitled" => spawned = 0   \* an identity never loses its file
  /\ starts' = starts + 1
  /\ IF projects # 0
       THEN /\ lastStart' = [doc |-> doc, registered |-> TRUE,
                             promise |-> "pending", proc |-> 0]
            /\ prj' = [prj EXCEPT ![projects] = providerUpdate(@, "tsar-main")]
            /\ UNCHANGED <<projects, spawned>>
       ELSE IF doc # "ok"
       THEN /\ lastStart' = [doc |-> doc, registered |-> FALSE,
                             promise |-> "rejected", proc |-> 0]
            /\ UNCHANGED <<projects, spawned, prj>>
       ELSE /\ lastStart' = [doc |-> doc, registered |-> FALSE,
                             promise |-> "pending", proc |-> spawned + 1]
            /\ spawned' = spawned + 1
            /\ prj' = [prj EXCEPT ![spawned + 1] =
                         [NoProject EXCEPT
                            !.server = "running",
                            !.promise = "pending",
                            !.overlap = \E q \in 1..spawned :
                               /\ prj[q].server = "running"
                               /\ ~prj[q].isDisposed]]
            /\ UNCHANGED projects

\* onServerData(raw) for one stdout line of server p.  'start' (with a
\* version), 'close', 'send' and 'receive' lines only write the log; an
\* 'error' line, a 'start' line without a version, an unknown status and
\* an 'accept' before 'listen' end in the catch clause.  A server prints
\* 'listen' once.
ServerLine(p, status) ==
  /\ prj[p].server \in {"running", "killed"}
  /\ status = "listen" => ~prj[p].created
  /\ (status = "error" \/ (status = "accept" /\ ~prj[p].created))
       => prj[p].catchKills < MaxKills
  /\ UNCHANGED <<starts, spawned, lastStart, byID, _providers, message>>
  /\ LET P == prj[p] IN
     CASE status = "start" \/ status = "send" ->
            /\ prj' = [prj EXCEPT ![p] = P]
            /\ UNCHANGED projects
       [] status = "listen" ->
            /\ prj' = [prj EXCEPT ![p] = onListening(P)]
            /\ projects' = p
       [] status = "accept" ->
            /\ prj' = [prj EXCEPT ![p] = onConnection(P)]
            /\ UNCHANGED projects
       [] OTHER ->
            /\ prj' = [prj EXCEPT ![p] = onServerDataCatch(P)]
            /\ UNCHANGED projects

\* server.on('close'): the process has ended; the listener calls _stop(uri).
ServerClose(p) ==
  /\ prj[p].server \in {"running", "killed"}
  /\ UNCHANGED <<starts, spawned, lastStart, byID, _providers, message>>
  /\ SetEngine(_stop([Engine EXCEPT
        !.prj[p] = [@ EXCEPT !.server = "closed",
                             !.closedLive = (projects = p /\ ~prj[p].isDisposed),
                             !.stopped = @ \/ prj[p].created]]))

\* client.on('error'): the connection fails or breaks; the listener only
\* reports an internal error, the socket is destroyed by the failure.
ClientError(p) ==
  /\ prj[p].client = "open"
  /\ prj[p].server \in {"running", "killed"}
  /\ UNCHANGED <<projects, starts, spawned, lastStart, byID, _providers, message>>
  /\ prj' = [prj EXCEPT ![p] =
       [@ EXCEPT !.client = "destroyed",
                 !.internalErrors = @ + 1,
                 !.handshakeError =
                    IF prj[p].promise = "pending" THEN "connect" ELSE @]]

\* engine.stop(uri), the tsar.stop command.
Stop ==
  /\ projects # 0
  /\ UNCHANGED <<starts, spawned, lastStart, byID, _providers, message>>
  /\ SetEngine(_stop([Engine EXCEPT
        !.prj[projects].stopped = TRUE]))

\* The tsar.start command once start() has resolved: listen for the
\* disposal of the summary content, run the tool (send the command line).
OnStarted(p) ==
  /\ prj[p].promise = "resolved"
  /\ ~prj[p].listener
  /\ UNCHANGED <<projects, starts, spawned, lastStart, byID, _providers, message>>
  /\ prj' = [prj EXCEPT ![p] =
               send(Requested([@ EXCEPT !.listener = TRUE], "C"), "C")]

\* ... and after runTool: state.active = true, which renders the summary
\* in a panel while the Project still has its states; send(Statistic).
OnToolRun(p) ==
  /\ prj[p].listener
  /\ ~prj[p].toolRun
  /\ UNCHANGED <<starts, spawned, lastStart, byID, _providers, message>>
  /\ LET S == setActive([Engine EXCEPT !.prj[p].toolRun = TRUE],
                        p, "tsar-main", TRUE)
     IN SetEngine([S EXCEPT !.prj[p] = send(Requested(@, "S"), "S")])

\* A closed summary panel whose onDidDisposeContent reaches no listener.
PanelClose_keep(p) ==
  /\ prj[p].hasPanel["tsar-main"]
  /\ UNCHANGED <<projects, starts, spawned, lastStart, byID, _providers, message>>
  /\ prj' = [prj EXCEPT ![p].hasPanel["tsar-main"] = FALSE,
                         ![p].shown["tsar-main"] = "none"]

\* The user closes the summary panel: onDidDisposeContent -> engine.stop.
PanelClose(p) ==
  /\ prj[p].hasPanel["tsar-main"]
  /\ UNCHANGED <<starts, spawned, lastStart, byID, _providers, message>>
  /\ LET S == [Engine EXCEPT
                 !.prj[p] = [@ EXCEPT !.hasPanel["tsar-main"] = FALSE,
                                      !.shown["tsar-main"] = "none",
                                      !.stopped = @ \/ prj[p].listener]]
     IN SetEngine(IF prj[p].listener THEN _stop(S) ELSE S)

\* The user closes the panel of another state: _hasPanel = false and
\* onDidDisposeContent fires, to which nothing listens.
ClosePanel(p, scheme) ==
  /\ scheme # "tsar-main"
  /\ prj[p].hasPanel[scheme]
  /\ UNCHANGED <<projects, starts, spawned, lastStart, byID, _providers, message>>
  /\ prj' = [prj EXCEPT ![p].hasPanel[scheme] = FALSE,
                         ![p].shown[scheme] = "none"]

InitEngine ==
  /\ projects = 0
  /\ starts = 0
  /\ spawned = 0
  /\ lastStart = NoStart
  /\ byID = <<>>
  /\ _providers = Schemes
  /\ message = NoMessage
  /\ prj = [p \in Procs |-> NoProject]

NextEngine ==
  \/ \E doc \in Docs : Start(doc)
  \/ \E p \in Procs, st \in Statuses : ServerLine(p, st)
  \/ \E p \in Procs : ServerClose(p)
  \/ Stop

SpecEngine == InitEngine /\ [][NextEngine]_vars

\* The handshake of the first server, with the failures of its socket.
NextHandshake ==
  \/ \E doc \in Docs : Start(doc)
  \/ \E st \in Statuses : ServerLine(1, st)
  \/ ClientError(1)
  \/ ServerClose(1)
  \/ Stop

SpecHandshake == InitEngine /\ [][NextHandshake]_vars

\* ------------------------------------------------- the socket stream
\* The server writes one message text followed by the delimiter.
ServerWrite(p, text) ==
  /\ prj[p].server = "running"
  /\ prj[p].client \in {"open", "ended"}
  /\ Len(prj[p].sent) < MaxMsgs
  /\ UNCHANGED <<projects, starts, spawned, lastStart, byID, _providers, message>>
  /\ prj' = [prj EXCEPT ![p] =
       [@ EXCEPT !.sent = Append(@, text),
                 !.wire = @ \o text \o <<delimiter>>]]

\* client.on('data'): the next n characters arrive as one chunk and are
\* handled by _onResponse.  end() only closes the writing side, so data
\* keeps arriving until the socket is destroyed.
Deliver(p, n, outs) ==
  /\ prj[p].created
  /\ prj[p].client \in {"open", "ended"}
  /\ n \in 1..Len(prj[p].wire)
  /\ UNCHANGED <<projects, starts, spawned, lastStart, byID, _providers, message>>
  /\ prj' = [prj EXCEPT ![p] =
       _onResponse([@ EXCEPT !.wire = SubSeq(@, n + 1, Len(@))],
                   SubSeq(prj[p].wire, 1, n), outs)]

\* Requests the commands of the extension send.
Requests == {"S", "F"}

\* A renderer or command calls project.send(request).
Send(p, request) ==
  /\ prj[p].created
  /\ prj[p].sendCalls < MaxSends
  /\ UNCHANGED <<projects, starts, spawned, lastStart, byID, _providers, message>>
  /\ prj' = [prj EXCEPT ![p] = send(Requested(@, request), request)]

\* 'drain': every once('drain') listener runs, each sending its request.
RECURSIVE emitDrain(_, _)
emitDrain(P, ls) ==
  IF ls = <<>> THEN P ELSE emitDrain(send(P, Head(ls)), Tail(ls))

\* One socket per identity: the frame an earlier Project left buffered is
\* taken by the socket of the Project that is registered now.
Flush_registered(p) ==
  /\ prj[p].client \in {"open", "ended"}
  /\ prj[p].written # <<>>
  /\ UNCHANGED <<projects, starts, spawned, lastStart, byID, _providers, message>>
  /\ LET q == IF projects # 0 THEN projects ELSE p
         frame == Head(prj[p].written)
         A == [prj EXCEPT ![p].written = Tail(@)]
     IN prj' = [A EXCEPT ![q].accepted = Append(@, frame)]

\* The transport takes the oldest buffered frame; when the buffer runs
\* empty after write() had returned false the socket emits 'drain'.
Flush(p) ==
  /\ prj[p].client \in {"open", "ended"}
  /\ prj[p].written # <<>>
  /\ UNCHANGED <<projects, starts, spawned, lastStart, byID, _providers, message>>
  /\ LET P == [prj[p] EXCEPT !.accepted = Append(@, Head(prj[p].written)),
                             !.written = Tail(@)]
     IN prj' = [prj EXCEPT ![p] =
          IF P.written = <<>> /\ P.needDrain
            THEN emitDrain([P EXCEPT !.needDrain = FALSE, !.onDrain = <<>>,
                                     !.drains = @ + 1], P.onDrain)
            ELSE P]

\* A Project whose handshake has completed: start, listen, accept.
ReadyProject ==
  onConnection(onListening([NoProject EXCEPT !.server = "running",
                                             !.promise = "pending"]))

InitReady ==
  /\ projects = 1
  /\ starts = 1
  /\ spawned = 1
  /\ lastStart = [doc |-> "ok", registered |-> FALSE, promise |-> "pending",
                  proc |-> 1]
  /\ byID = <<>>
  /\ _providers = Schemes
  /\ message = NoMessage
  /\ prj = [p \in Procs |-> IF p = 1 THEN ReadyProject ELSE NoProject]

NextFramer ==
  \/ \E t \in ServerTexts : ServerWrite(1, t)
  \/ \E n \in 1..(4 * MaxMsgs), outs \in [SchemeSet -> Outcomes] :
       Deliver(1, n, outs)
  \/ Stop
  \/ ServerClose(1)

SpecFramer == InitReady /\ [][NextFramer]_vars

NextSend ==
  \/ OnStarted(1)
  \/ OnToolRun(1)
  \/ \E r \in Requests : Send(1, r)
  \/ Flush(1)
  \/ PanelClose(1)
  \/ Stop
  \/ ServerClose(1)

SpecSend == InitReady /\ [][NextSend]_vars

\* start(doc) for a document that is not active, up to the 'listen' line
\* of its server: the Project is stored under the key of its uri.
OpenDocument(uri) ==
  /\ ~isActive(byID, uri)
  /\ byID' = [id \in DOMAIN byID \cup {_projectID(uri)} |->
                IF id = _projectID(uri) THEN uri ELSE byID[id]]
  /\ UNCHANGED <<projects, starts, spawned, prj, lastStart, _providers, message>>

\* stop(uri), with the uri of a document or of a link.
StopDocument(uri) ==
  /\ isActive(byID, uri)
  /\ byID' = stopUri(byID, uri)
  /\ UNCHANGED <<projects, starts, spawned, prj, lastStart, _providers, message>>

\* The registry with documents and links whose URIs differ in path, query
\* and fragment.
NextIdentity ==
  \/ \E uri \in Uris : OpenDocument(uri)
  \/ \E uri \in Uris : StopDocument(uri)

SpecIdentity == InitEngine /\ [][NextIdentity]_vars

\* ProjectEngine.register(scheme, provider) for a scheme not yet known to
\* the engine: a new property of _providers, last in the enumeration order.
Register(scheme) ==
  /\ \A i \in 1..Len(_providers) : _providers[i] # scheme
  /\ _providers' = Append(_providers, scheme)
  /\ UNCHANGED <<projects, starts, spawned, prj, lastStart, byID, message>>

\* Sessions are started and stopped while renderers are still being
\* registered with the engine.
NextRegister ==
  \/ \E scheme \in AllSchemes : Register(scheme)
  \/ Start("ok")
  \/ \E st \in {"listen", "accept"} : ServerLine(1, st)
  \/ ServerClose(1)
  \/ Stop

SpecRegister == InitEngine /\ [][NextRegister]_vars

\* A response message is built, serialized and decoded.
Create(m) ==
  /\ message.stage = "none"
  /\ message' = [NoMessage EXCEPT !.stage = "created", !.m = m]
  /\ UNCHANGED <<projects, starts, spawned, prj, lastStart, byID, _providers>>

Encode ==
  /\ message.stage = "created"
  /\ message' = [message EXCEPT !.stage = "encoded",
                                !.text = stringify(message.m)]
  /\ UNCHANGED <<projects, starts, spawned, prj, lastStart, byID, _providers>>

Decode ==
  /\ message.stage = "encoded"
  /\ message.text.thrown = "none"
  /\ message' = [message EXCEPT !.stage = "decoded",
                                !.obj = Parser_fromJSON(message.text.value)]
  /\ UNCHANGED <<projects, starts, spawned, prj, lastStart, byID, _providers>>

NextCodec ==
  \/ \E m \in Diagnostics \cup Statistics : Create(m)
  \/ Encode
  \/ Decode

SpecCodec == InitEngine /\ [][NextCodec]_vars

\* A Session with requests in flight is stopped and the document is
\* started again: every Project keeps the socket it was constructed with.
\* Commands send on the Project that engine.project(uri) gives them;
\* consecutive Sessions send different requests, so that a frame tells
\* the Session it was sent on.
NextRestart ==
  \/ /\ projects # 0
     /\ Send(projects, IF projects % 2 = 1 THEN "S" ELSE "F")
  \/ \E p \in Procs : Flush(p)
  \/ Stop
  \/ Start("ok")
  \/ \E p \in Procs : ServerLine(p, "listen")

SpecRestart == InitReady /\ [][NextRestart]_vars

\* A command hides and shows the content of a state again:
\* state.active = false; state.active = true.
Reactivate(p, scheme) ==
  /\ prj[p].created
  /\ prj[p].cycles[scheme] < MaxCycles
  /\ UNCHANGED <<starts, spawned, lastStart, byID, _providers, message>>
  /\ SetEngine(
       setActive(
         setActive([Engine EXCEPT !.prj[p].cycles[scheme] = @ + 1],
                   p, scheme, FALSE),
         p, scheme, TRUE))

\* The tsar.callee.func command: hide the call graph, show it again,
\* send a CalleeFuncList request for the target of the link.
ShowCalleeFunc(p, t) ==
  /\ projects = p
  /\ prj[p].cycles["tsar-calleefunc"] < MaxCycles
  /\ UNCHANGED <<starts, spawned, lastStart, byID, _providers, message>>
  /\ LET S == setActive(
               setActive([Engine EXCEPT
                            !.prj[p].cycles["tsar-calleefunc"] = @ + 1],
                         p, "tsar-calleefunc", FALSE),
               p, "tsar-calleefunc", TRUE)
     IN SetEngine([S EXCEPT
                     !.prj[p] = sendRequest(@, CalleeFuncListName(t))])

\* The tsar.loop.alias command: show the alias tree and send an AliasTree
\* request unless the state says its data is actual.
ShowAliasTree(p, t) ==
  /\ projects = p
  /\ prj[p].cycles["tsar-aliastree"] < MaxCycles
  /\ UNCHANGED <<starts, spawned, lastStart, byID, _providers, message>>
  /\ LET S == setActive([Engine EXCEPT
                           !.prj[p].cycles["tsar-aliastree"] = @ + 1],
                        p, "tsar-aliastree", TRUE)
         r == AliasTreeName(t)
     IN SetEngine(IF actual(S.prj[p], "tsar-aliastree", r)
                    THEN S
                    ELSE [S EXCEPT !.prj[p] = sendRequest(@, r)])

\* A command a state started with executeCommand runs: tsar.function.list
\* sends a FunctionList request, tsar.loop.tree a LoopTree request.
RunCommand(p) ==
  /\ projects = p
  /\ prj[p].commands # <<>>
  /\ Head(prj[p].commands) # "tsar.stop"
  /\ UNCHANGED <<projects, starts, spawned, lastStart, byID, _providers, message>>
  /\ prj' = [prj EXCEPT ![p] =
       sendRequest([@ EXCEPT !.commands = Tail(@)],
                   IF Head(prj[p].commands) = "tsar.function.list"
                     THEN "F" ELSE "LoopTree")]

\* The server answers a request of a renderer with a message, once the
\* answer before it has been received and the commands it started have run.
ServerAnswer(p, obj) ==
  /\ prj[p].server = "running"
  /\ prj[p].wire = <<>>
  /\ prj[p].commands = <<>>
  /\ prj[p].client \in {"open", "ended"}
  /\ Len(prj[p].sent) < MaxAnswers
  /\ UNCHANGED <<projects, starts, spawned, lastStart, byID, _providers, message>>
  /\ prj' = [prj EXCEPT ![p] =
       [@ EXCEPT !.sent = Append(@, Text(obj)),
                 !.wire = @ \o Text(obj) \o <<delimiter>>]]

\* A Project whose engine registered the providers of the call graph, the
\* alias tree and the file list, after its handshake.
RECURSIVE registerGraph(_, _)
registerGraph(P, i) ==
  IF i > Len(GraphSchemes) THEN P
  ELSE registerGraph(register(P, GraphSchemes[i]), i + 1)

GraphProject ==
  onConnection(registerGraph([NoProject EXCEPT !.server = "running",
                                               !.promise = "pending",
                                               !.client = "open",
                                               !.created = TRUE], 1))

InitGraph ==
  /\ projects = 1
  /\ starts = 1
  /\ spawned = 1
  /\ lastStart = [doc |-> "ok", registered |-> FALSE, promise |-> "pending",
                  proc |-> 1]
  /\ byID = <<>>
  /\ _providers = Schemes
  /\ message = NoMessage
  /\ prj = [p \in Procs |-> IF p = 1 THEN GraphProject ELSE NoProject]

\* The renderers of the call graph, the alias tree and the file list with
\* a server that answers whole messages and providers that do not throw.
NextGraph ==
  \/ \E t \in Targets : ShowCalleeFunc(1, t)
  \/ RunCommand(1)
  \/ \E obj \in {CalleeFuncListName(t) : t \in Targets} \cup {"F"} :
       ServerAnswer(1, obj)
  \/ Deliver(1, Len(prj[1].wire), [s \in AllSchemes |-> "ok"])

SpecGraph == InitGraph /\ [][NextGraph]_vars

\* The CalleeFuncList requests a Project has sent, and how many of them
\* the server has answered.
CalleeRequests(P) == SelectSeq(P.requests, LAMBDA r : r \in CalleeFuncLists)
CalleeAnswers(P) == SelectSeq(P.sent, LAMBDA t : t[2] \in CalleeFuncLists)

\* The server answers the oldest CalleeFuncList request it has not
\* answered yet, with the callees of the function asked for.
ServerReply(p) ==
  /\ Len(CalleeAnswers(prj[p])) < Len(CalleeRequests(prj[p]))
  /\ ServerAnswer(p, CalleeRequests(prj[p])[Len(CalleeAnswers(prj[p])) + 1])

\* The call graph of functions in a recursive call chain, with a server
\* that answers every request and sends the function list at any time.
NextRecursion ==
  \/ \E t \in RecursiveTargets \cup Targets : ShowCalleeFunc(1, t)
  \/ RunCommand(1)
  \/ ServerAnswer(1, "F")
  \/ ServerReply(1)
  \/ Deliver(1, Len(prj[1].wire), [s \in AllSchemes |-> "ok"])

SpecRecursion == InitGraph /\ [][NextRecursion]_vars

\* The call graph of a loop that the cached function does not list.
NextUnknownLoop ==
  \/ \E t \in UnknownLoopTargets \cup Targets : ShowCalleeFunc(1, t)
  \/ RunCommand(1)
  \/ ServerAnswer(1, "F")
  \/ ServerReply(1)
  \/ Deliver(1, Len(prj[1].wire), [s \in AllSchemes |-> "ok"])

SpecUnknownLoop == InitGraph /\ [][NextUnknownLoop]_vars

\* A transformation command once start() has resolved: withProgress
\* listens for the state to become inactive, state.active = true, runTool
\* sends the command line, then the empty request is sent.
OnTransform(p) ==
  /\ projects = p
  /\ prj[p].promise = "resolved"
  /\ ~prj[p].progress
  /\ UNCHANGED <<starts, spawned, lastStart, byID, _providers, message>>
  /\ LET S == setActive([Engine EXCEPT !.prj[p].progress = TRUE],
                        p, "tsar-transform", TRUE)
     IN SetEngine([S EXCEPT !.prj[p] =
          send(Requested(send(Requested(@, "C"), "C"), "''"), "''")])

\* The tsar.stop command that the continuation of withProgress started.
RunStop(p) ==
  /\ prj[p].commands # <<>>
  /\ Head(prj[p].commands) = "tsar.stop"
  /\ UNCHANGED <<starts, spawned, lastStart, byID, _providers, message>>
  /\ SetEngine(_stop([Engine EXCEPT !.prj[p].commands = Tail(@),
                                    !.prj[p].stopped = TRUE]))

InitTransform ==
  /\ projects = 1
  /\ starts = 1
  /\ spawned = 1
  /\ lastStart = [doc |-> "ok", registered |-> FALSE, promise |-> "pending",
                  proc |-> 1]
  /\ byID = <<>>
  /\ _providers = TransformSchemes
  /\ message = NoMessage
  /\ prj = [p \in Procs |-> IF p = 1 THEN ReadyProject ELSE NoProject]

\* A Session of a transformation command: the server reports with
\* Diagnostics and other messages, cut into chunks anywhere.
NextTransform ==
  \/ OnTransform(1)
  \/ \E tag \in {"D", "E", "S", "Done"} : ServerWrite(1, Text(tag))
  \/ \E n \in 1..(4 * MaxMsgs) :
       Deliver(1, n, [s \in AllSchemes |-> "ok"])
  \/ RunStop(1)

SpecTransform == InitTransform /\ [][NextTransform]_vars

\* The same for the alias tree and the file list.
NextAlias ==
  \/ \E t \in {a \in AliasTargets : a.FuncID # NoID} : ShowAliasTree(1, t)
  \/ RunCommand(1)
  \/ \E obj \in (GraphMessages \ CalleeFuncLists) \cup {"F"} :
       ServerAnswer(1, obj)
  \/ Deliver(1, Len(prj[1].wire), [s \in AllSchemes |-> "ok"])

SpecAlias == InitGraph /\ [][NextAlias]_vars

\* The renderers of a Session whose server keeps to the protocol and
\* whose chunks end at a delimiter.
NextRender ==
  \/ \E tag \in DOMAIN ParserKinds : ServerWrite(1, Text(tag))
  \/ \E outs \in [SchemeSet -> Outcomes] :
       Deliver(1, Len(prj[1].wire), outs)
  \/ OnStarted(1)
  \/ OnToolRun(1)
  \/ \E s \in SchemeSet : Reactivate(1, s)

SpecRender == InitReady /\ [][NextRender]_vars

\* The same Session with a user who closes the panels.
NextPanel ==
  \/ \E tag \in DOMAIN ParserKinds : ServerWrite(1, Text(tag))
  \/ Deliver(1, Len(prj[1].wire), [s \in AllSchemes |-> "ok"])
  \/ OnStarted(1)
  \/ OnToolRun(1)
  \/ \E s \in SchemeSet : Reactivate(1, s)
  \/ PanelClose(1)
  \/ \E s \in SchemeSet : ClosePanel(1, s)

SpecPanel == InitReady /\ [][NextPanel]_vars

\* =============================================================== claims
Created == {p \in Procs : prj[p].created}

\* Everything server p wrote has been received, without a protocol error.
AllReceived(p) ==
  /\ prj[p].created /\ prj[p].wire = <<>> /\ prj[p].internalErrors = 0
  /\ \A i \in 1..Len(prj[p].sent) :
       fromJSON(prj[p].sent[i]) \in Messages

\* C1: split-invariance of the framer.  Once every chunk of the stream a
\* server wrote has been handled by _onResponse without a protocol error,
\* the texts handed to the decoder are exactly the texts written, in order.
C1_SplitInvariance ==
  \A p \in Procs : AllReceived(p) => prj[p].decoded = prj[p].sent

\* C4: no complete frame is dropped or reordered.  Once every chunk has
\* been handled without a protocol error, the response log holds the
\* decoded message of every frame written, in the order written.
C4_NoFrameDropped ==
  \A p \in Procs :
    AllReceived(p) =>
      prj[p].responses =
        [i \in 1..Len(prj[p].sent) |-> fromJSON(prj[p].sent[i])]

\* The schemes whose provider.update ran for log entry i, in call order.
CallsFor(p, i) ==
  LET cs == SelectSeq(prj[p].calls, LAMBDA c : c.idx = i)
  IN [k \in 1..Len(cs) |-> cs[k].scheme]

\* Log entries appended while the Project was not disposed.
LiveEntries(p) == 1..(Len(prj[p].responses) - prj[p].lateLog)

\* C6: Project.update calls provider.update of every registered state
\* exactly once per dispatched message, in registration order.
C6_DispatchOrder ==
  \A p \in Procs : \A i \in LiveEntries(p) : CallsFor(p, i) = Schemes

\* C7: handler failure isolation.  When the handler of one state fails for
\* a message (it throws or its promise is rejected), every other state
\* still receives that message and the socket is not destroyed for it.
C7_FailureIsolation ==
  \A p \in Procs : \A i \in LiveEntries(p) :
    (\E k \in 1..Len(prj[p].calls) :
        prj[p].calls[k].idx = i /\ prj[p].calls[k].out # "ok")
    => /\ \A s \in SchemeSet : \E k \in 1..Len(prj[p].calls) :
            prj[p].calls[k].idx = i /\ prj[p].calls[k].scheme = s
       /\ prj[p].internalErrors = 0

\* C9: after a Session has been stopped, send and dispatch are no-ops: a
\* step taken while the Project is disposed changes neither its response
\* log, nor its cursor, nor what is written to its socket, and raises no
\* internal error.
C9_NoOpAfterStop ==
  [][\A p \in Procs :
       prj[p].isDisposed =>
         /\ prj'[p].responses = prj[p].responses
         /\ prj'[p].newResponse = prj[p].newResponse
         /\ prj'[p].written = prj[p].written
         /\ prj'[p].internalErrors = prj[p].internalErrors]_vars

Live == {p \in Procs : prj[p].created /\ ~prj[p].isDisposed}

\* C2: at most one live Session per identity, i.e. at most one Project of
\* the identity is constructed and not disposed.
C2_OneLiveSession == Cardinality(Live) <= 1

\* C3: the registry holds a Session only once its handshake is Ready, i.e.
\* once the promise of its start() has been resolved by 'accept'.
C3_RegisteredOnlyReady ==
  projects # 0 => prj[projects].promise = "resolved"

\* C8: stopping is idempotent.  Once any stop request was aimed at a
\* Session its socket has been ended once, its process killed once, every
\* state disposed once, and the registry does not hold it.
C8_StopIdempotent ==
  \A p \in Procs :
    prj[p].stopped =>
      /\ prj[p].ends = 1
      /\ prj[p].kills = 1
      /\ \A s \in SchemeSet : prj[p].stateDispose[s] = 1
      /\ projects # p

\* C10: when the process of a registered, not yet stopped Session closes,
\* the Session is disposed and unregistered in that step, and a process is
\* spawned only by a start() call.
C10_CloseStopsNoRestart ==
  [][/\ \A p \in Procs :
          (prj[p].server # "closed" /\ prj'[p].server = "closed"
           /\ projects = p /\ ~prj[p].isDisposed)
          => (prj'[p].isDisposed /\ projects' = 0 /\ spawned' = spawned)
     /\ spawned' # spawned => starts' = starts + 1]_vars

\* The process of a registered Session that nobody had stopped has closed.
C10_Witness ==
  \E p \in Procs :
    /\ prj[p].closedLive /\ prj[p].promise = "resolved"
    /\ prj[p].isDisposed /\ projects = 0 /\ prj[p].kills = 1

\* C11: stopping one Session never disposes or unregisters another one.
\* When the process of a Session that has been stopped closes while a
\* newer Session of the identity, started after that stop, is registered
\* and live, the newer Session stays registered and live.
C11_CloseLeavesOthers ==
  [][\A p, q \in Procs :
       (/\ p < q
        /\ prj[p].isDisposed
        /\ prj[p].server # "closed" /\ prj'[p].server = "closed"
        /\ ~prj[q].overlap
        /\ projects = q /\ ~prj[q].isDisposed)
       => (projects' = q /\ ~prj'[q].isDisposed)]_vars

\* C12: start() for an identity with a registered Session fails: its
\* promise is rejected, nothing is spawned, and the registry and the
\* existing Session are left as they were.
C12_StartWhenActive ==
  [][(starts' # starts /\ projects # 0) =>
       /\ lastStart'.promise = "rejected"
       /\ spawned' = spawned
       /\ projects' = projects
       /\ prj' = prj]_vars

\* Documents that fail a precondition of start().
Invalid == {"untitled", "language", "notDirectory"}

\* C13: start() with an untitled document, an unsupported language or an
\* unusable project directory rejects inside the call; no process is
\* spawned, no socket is opened and the registry is unchanged.
C13_PreconditionRejects ==
  [][(starts' # starts /\ lastStart'.doc \in Invalid) =>
       /\ lastStart'.promise = "rejected"
       /\ spawned' = spawned
       /\ projects' = projects
       /\ \A p \in Procs : prj'[p].client = prj[p].client]_vars

\* C14: when the handshake fails before Ready (an 'error' status, an
\* unexpected control message, a socket error), the promise of start() is
\* rejected and the process killed, and once the process has closed the
\* registry does not hold its Session.
C14_HandshakeFailure ==
  \A p \in Procs :
    prj[p].handshakeError # "none" =>
      /\ prj[p].promise = "rejected"
      /\ prj[p].server # "running"
      /\ prj[p].server = "closed" => projects # p

\* C15: the handshake keeps its order.  The socket is opened only by the
\* step that handles 'listen', and the promise of start() is resolved only
\* by a step that finds the Project of an earlier 'listen': an 'accept'
\* before any 'listen' never resolves it.
C15_HandshakeOrder ==
  [][\A p \in Procs :
       /\ (prj[p].client = "none" /\ prj'[p].client # "none")
            => (~prj[p].created /\ prj'[p].created)
       /\ (prj[p].promise # "resolved" /\ prj'[p].promise = "resolved")
            => (prj[p].created /\ prj[p].client # "none")]_vars

\* One handshake completed in order, and another one saw 'accept' before
\* 'listen' and then 'listen'.
C15_Witness ==
  \E p, q \in Procs :
    /\ prj[p].promise = "resolved" /\ prj[p].created
    /\ prj[q].handshakeError = "accept" /\ prj[q].created
    /\ prj[q].promise = "rejected"

\* The decoded messages of the texts handed to the parser, in order.
DecodedMessages(p) ==
  LET ok == SelectSeq(prj[p].decoded, LAMBDA d : fromJSON(d) \in Messages)
  IN [i \in 1..Len(ok) |-> fromJSON(ok[i])]

\* C16: a frame that cannot be parsed, whose name is not registered, or
\* that is the literal REJECT is never appended to the response log and
\* never shown to a provider; it is reported as an internal error and the
\* socket is destroyed.
C16_BadFrameDropped ==
  \A p \in Procs :
    /\ prj[p].responses = DecodedMessages(p)
    /\ \A k \in 1..Len(prj[p].calls) : prj[p].calls[k].seen \in Messages
    /\ prj[p].badFrames # <<>> =>
         /\ prj[p].internalErrors >= 1
         /\ prj[p].client = "destroyed"

\* A valid frame was applied and dispatched, and a later frame was refused.
C16_Witness ==
  \E p \in Procs :
    /\ prj[p].badFrames # <<>>
    /\ Len(prj[p].responses) >= 1
    /\ Len(prj[p].calls) >= 1
    /\ prj[p].client = "destroyed"

\* C17: a protocol error is fatal to the Session, which stops itself.
\* Once the handling of a refused frame has run to its end (the socket is
\* destroyed, no callback of the engine is pending), the Session has been
\* disposed and removed from the registry, without a user's stop and
\* without waiting for the server process to exit on its own.
C17_SelfStop ==
  \A p \in Procs :
    (prj[p].badFrames # <<>> /\ prj[p].client = "destroyed")
      => (prj[p].isDisposed /\ projects # p)

\* A chunk holding one frame with the text of a tag.
Chunk(tag) == Text(tag) \o <<delimiter>>

\* The schemes of the provider.update calls a Project has recorded.
CallSchemes(P) == [k \in 1..Len(P.calls) |-> P.calls[k].scheme]

DeclaredKinds(scheme) ==
  IF scheme = "tsar-main" THEN {"Statistic"}
                          ELSE {"FunctionList", "CalleeFuncList"}

\* The messages a step appends to the response log of Project p.
Dispatched(p) ==
  {prj'[p].responses[i] :
     i \in (Len(prj[p].responses) + 1)..Len(prj'[p].responses)}

C20_ReactivateRendersCache ==
  [][\A p \in Procs :
       (/\ prj'[p].cycles["tsar-main"] # prj[p].cycles["tsar-main"]
        /\ prj[p].data["tsar-main"] # "undefined")
       => /\ prj'[p].data["tsar-main"] = prj[p].data["tsar-main"]
          /\ prj'[p].passes["tsar-main"] = prj[p].passes["tsar-main"] + 1
          /\ prj'[p].shown["tsar-main"] = prj[p].data["tsar-main"]
          /\ prj'[p].written = prj[p].written
          /\ prj'[p].sendCalls = prj[p].sendCalls]_vars

\* Requests a command or a state may be about to send.
RequestKinds ==
  {"F", "S", "FileList", "LoopTree"} \cup CalleeFuncLists \cup AliasTrees

\* C21: actual(request) is true exactly when the request is a FileList and
\* a file list is cached (file list state), or a FunctionList and a
\* function list is cached (call graph state, alias tree state); it is
\* false for every other request.
C21_ActualMatchesCache ==
  \A p \in Procs : \A request \in RequestKinds :
    prj[p].created =>
      /\ actual(prj[p], "tsar-filelist", request)
           <=> (request = "FileList"
                /\ prj[p].data["tsar-filelist"] = "Files")
      /\ actual(prj[p], "tsar-calleefunc", request)
           <=> (request = "F"
                /\ prj[p].data["tsar-calleefunc"] = "Functions")
      /\ actual(prj[p], "tsar-aliastree", request)
           <=> (request = "F"
                /\ prj[p].data["tsar-aliastree"] = "Functions")

\* The one message a step dispatches to the providers of Project p.
Arrives(p, obj) ==
  prj'[p].responses = Append(prj[p].responses, obj)

\* C22: a CalleeFuncList that arrives while no function list is cached
\* makes the call graph state ask for the function list and send the
\* CalleeFuncList request again with the FuncID, LoopID and Attr of the
\* response, and nothing complete is reported; when the user had asked for
\* the call graph, and the FunctionList and then the response for the same
\* target (a function that calls nothing) have been dispatched, the graph
\* of that target is complete and shown.
C22_CrossKindDependency ==
  [][\A p \in Procs : \A t \in Targets :
       LET s == "tsar-calleefunc"
           m == CalleeFuncListName(t)
           P == prj[p]
           n == Len(P.responses)
       IN
       Arrives(p, m) =>
         /\ P.data[s] # "Functions" =>
              /\ prj'[p].commands = P.commands \o <<"tsar.function.list",
                                                    "tsar.loop.tree">>
              /\ prj'[p].requests = Append(P.requests, m)
              /\ ~prj'[p].Complete
              /\ prj'[p].shown[s] # "graph"
         /\ (/\ P.cycles[s] > 0
             /\ Callees(t.FuncID) = {}
             /\ n >= 2
             /\ P.responses[n] = "FunctionList"
             /\ P.responses[n - 1] = m) =>
              /\ prj'[p].Complete
              /\ prj'[p].Target = <<t>>
              /\ prj'[p].shown[s] = "graph"]_vars

\* C23: an AliasTree that arrives while no function list is cached makes
\* the alias tree state send an AliasTree request with the FuncID and the
\* LoopID of that response, and the state resolves no data to render.
C23_AliasTreeReissue ==
  [][\A p \in Procs : \A t \in AliasTargets :
       LET s == "tsar-aliastree" IN
       (Arrives(p, AliasTreeName(t)) /\ prj[p].data[s] # "Functions") =>
         /\ prj'[p].requests = Append(prj[p].requests, AliasTreeName(t))
         /\ prj'[p].AliasTree = prj[p].AliasTree
         /\ prj'[p].shown[s] # "aliastree"]_vars

\* C24: setting active to false on the call graph state leaves Target and
\* CallGraph undefined and Complete false and keeps the cached function
\* list; the activation that follows with no message in between shows no
\* call graph built before the deactivation.
C24_DeactivationClearsGraph ==
  [][\A p \in Procs :
       LET s == "tsar-calleefunc" IN
       prj'[p].cycles[s] # prj[p].cycles[s] =>
         /\ prj'[p].Target = <<>>
         /\ prj'[p].CallGraph = <<>>
         /\ ~prj'[p].Complete
         /\ prj'[p].data[s] = prj[p].data[s]
         /\ prj'[p].active[s]
         /\ prj'[p].shown[s] = "wait"]_vars

\* The graph of function 2 was complete when the command hid the state and
\* showed it again: the functions are kept, the graph is gone.
C24_Witness ==
  \E p \in Procs :
    /\ prj[p].responses = <<"FunctionList", "CalleeFuncList(2,0,1)">>
    /\ prj[p].cycles["tsar-calleefunc"] = 1
    /\ prj[p].data["tsar-calleefunc"] = "Functions"
    /\ prj[p].Target = <<>>
    /\ prj[p].shown["tsar-calleefunc"] = "wait"

\* C25: the cursor of a Project lies between 0 and the length of its
\* response log; a step changes the log only by appending at its end, and
\* the cursor never decreases.
C25_LogAndCursor ==
  /\ [](\A p \in Procs :
          /\ 0 <= prj[p].newResponse
          /\ prj[p].newResponse <= Len(prj[p].responses))
  /\ [][\A p \in Procs :
          /\ Len(prj'[p].responses) >= Len(prj[p].responses)
          /\ SubSeq(prj'[p].responses, 1, Len(prj[p].responses))
               = prj[p].responses
          /\ prj'[p].newResponse >= prj[p].newResponse]_vars

\* Two messages were logged; the second was not popped because a provider
\* threw while it was dispatched.
C25_Witness ==
  \E p \in Procs :
    /\ Len(prj[p].responses) = 2
    /\ prj[p].newResponse = 1
    /\ prj[p].client = "destroyed"

\* C26: for a Project with an empty raw buffer, an empty chunk and a chunk
\* that is the delimiter alone decode and dispatch nothing, raise no error,
\* leave the socket alone and change nothing in the Project.
C26_EmptyChunkIsNoMessage ==
  \A p \in Procs : \A outs \in [SchemeSet -> Outcomes] :
    (/\ prj[p].created
     /\ prj[p].client \in {"open", "ended"}
     /\ prj[p].rawResponse = <<>>)
    => /\ _onResponse(prj[p], <<>>, outs) = prj[p]
       /\ _onResponse(prj[p], <<delimiter>>, outs) = prj[p]

C28_IdentityIgnoresQueryAndFragment ==
  \A u1 \in Uris : \A u2 \in Uris :
    u1.path = u2.path =>
      /\ isActive(byID, u1) = isActive(byID, u2)
      /\ project(byID, u1) = project(byID, u2)
      /\ stopUri(byID, u1) = stopUri(byID, u2)

\* C29: a Session keeps the renderer kinds the engine had when the Session
\* was created: until it is stopped providerState gives a state for exactly
\* these kinds, the states stay the same from step to step, a kind the
\* engine learns later is not attached, and a kind that was never
\* registered has no state.
C29_SnapshotOfKinds ==
  /\ [](\A p \in Live :
         \A scheme \in AllSchemes \cup {"tsar-unknown"} :
           hasState(prj[p], scheme) <=> scheme \in Kinds(prj[p].snapshot))
  /\ [][\A p \in Live : ~prj'[p].isDisposed =>
         prj'[p].providers = prj[p].providers]_vars

C29_Witness ==
  /\ 1 \in Live
  /\ hasState(prj[1], "tsar-main")
  /\ Kinds(_providers) # Kinds(prj[1].snapshot)
  /\ prj[1].client = "open"

\* C30: on every failure path (an internal error, a rejected start, a
\* start of a document whose Project is active, an error Diagnostic of the
\* server) a log entry is written, and it is written before the first
\* error or warning box of the path.
UserVisible == {"showErrorMessage", "showWarningMessage"}

LogFirst(events) ==
  /\ \E j \in 1..Len(events) : events[j] = "log"
  /\ \A i \in 1..Len(events) :
       events[i] \in UserVisible => \E j \in 1..(i - 1) : events[j] = "log"

C30_LogBeforeUserAction ==
  /\ \A p \in Procs :
       /\ prj[p].internalErrors > 0 => LogFirst(_internalErrorEvents)
       /\ prj[p].errorMessages > 0 => LogFirst(errorDiagnosticEvents)
       /\ prj[p].promise = "rejected" => LogFirst(onRejectEvents)
  /\ lastStart.promise = "rejected" => LogFirst(onRejectEvents)
  /\ lastStart.registered => LogFirst(alreadyActiveEvents)

\* C31: a response message that is serialized and decoded again comes back:
\* neither step throws and the decoded object has the class and the
\* fields of the message.
SameFields(a, b) ==
  /\ a.proto = b.proto
  /\ a.Status = b.Status /\ a.Error = b.Error /\ a.Warning = b.Warning
  /\ a.Terminal = b.Terminal /\ a.Functions = b.Functions
  /\ a.Loops = b.Loops /\ a.Variables = b.Variables

C31_RoundTrip ==
  /\ message.stage = "encoded" => message.text.thrown = "none"
  /\ message.stage = "decoded" =>
       /\ message.obj.thrown = "none"
       /\ SameFields(message.obj.value, message.m)

\* C32: after every chunk the raw buffer is the text received after the
\* last delimiter of the stream so far, empty when the stream ends on a
\* delimiter; what is handed to the parser or rejected is always a whole
\* text the server wrote, never an unterminated segment.
RECURSIVE Stream(_, _)
Stream(p, i) ==
  IF i > Len(prj[p].sent) THEN <<>>
  ELSE prj[p].sent[i] \o <<delimiter>> \o Stream(p, i + 1)

Received(p) ==
  SubSeq(Stream(p, 1), 1, Len(Stream(p, 1)) - Len(prj[p].wire))

AfterLastDelimiter(s) == Last(split(s))

C32_RawBufferIsOpenSegment ==
  \A p \in Procs : prj[p].created =>
    /\ prj[p].rawResponse = AfterLastDelimiter(Received(p))
    /\ \A i \in 1..Len(prj[p].decoded) : prj[p].decoded[i] \in ServerTexts
    /\ \A i \in 1..Len(prj[p].badFrames) : prj[p].badFrames[i] \in ServerTexts

C32_Witness ==
  /\ prj[1].rawResponse # <<>>
  /\ prj[1].decoded # <<>>
  /\ Len(prj[1].rawResponse) = 2

\* C33: between dispatches the cursor of a Project equals the length of its
\* response log, so Project.response is undefined; every handler called by
\* Project.update(m) reads m as Project.response.
C33_CursorAligned ==
  \A p \in Procs :
    /\ prj[p].newResponse = Len(prj[p].responses)
    /\ response(prj[p]) = "undefined"
    /\ \A i \in 1..Len(prj[p].calls) :
         prj[p].calls[i].seen = prj[p].responses[prj[p].calls[i].idx]

\* C34: a webview state draws only while it is active: an inactive state
\* has no panel, and a step that leaves a state inactive (a dispatch, the
\* activation of another state) neither creates a panel for it nor changes
\* what it shows.
C34_InactiveStateHasNoPanel ==
  /\ [](\A p \in Procs : \A s \in AllSchemes :
          prj[p].hasPanel[s] => prj[p].active[s])
  /\ [][\A p \in Procs : \A s \in AllSchemes :
          (~prj[p].active[s] /\ ~prj'[p].active[s]) =>
             /\ ~prj'[p].hasPanel[s]
             /\ prj'[p].shown[s] = prj[p].shown[s]]_vars

C34_Witness ==
  /\ prj[1].active["tsar-main"]
  /\ prj[1].hasPanel["tsar-main"]
  /\ ~prj[1].active["tsar-calleefunc"]
  /\ prj[1].data["tsar-calleefunc"] # "undefined"
  /\ prj[1].passes["tsar-calleefunc"] >= 2
  /\ ~prj[1].hasPanel["tsar-calleefunc"]

\* C35: the dispatch of a FunctionList resets the state of the call graph:
\* after it the state is inactive and has no panel, its data are the
\* functions of the message alone (Target and CallGraph undefined, Complete
\* false), and no graph is resolved for rendering.
C35_FunctionListResetsGraph ==
  [][\A p \in Procs :
       LET s == "tsar-calleefunc" IN
       (Arrives(p, "FunctionList") /\ hasState(prj[p], s)) =>
         /\ ~prj'[p].active[s]
         /\ ~prj'[p].hasPanel[s]
         /\ prj'[p].data[s] = "Functions"
         /\ prj'[p].Target = <<>>
         /\ prj'[p].CallGraph = <<>>
         /\ ~prj'[p].Complete
         /\ prj'[p].shown[s] = "none"]_vars

C35_Witness ==
  LET n == Len(prj[1].responses) IN
  /\ n >= 2
  /\ prj[1].responses[n] = "FunctionList"
  /\ prj[1].responses[n - 1] \in CalleeFuncLists
  /\ prj[1].cycles["tsar-calleefunc"] > 0
  /\ prj[1].data["tsar-calleefunc"] = "Functions"
  /\ ~prj[1].active["tsar-calleefunc"]

\* C36: whenever the data of the call graph state are complete, Target and
\* Functions are defined and every function called from a node of the
\* CallGraph has a node of its own; a graph is shown only when the data
\* are complete.
Closed(G) == \A n \in G : \A c \in Callees(n[1]) : <<c, 0>> \in G

C36_CompleteGraphIsClosed ==
  \A p \in Procs :
    LET s == "tsar-calleefunc" IN
    /\ prj[p].Complete =>
         /\ prj[p].Target # <<>>
         /\ prj[p].data[s] = "Functions"
         /\ prj[p].CallGraph # <<>>
         /\ Closed(prj[p].CallGraph[1])
    /\ prj[p].shown[s] = "graph" => prj[p].Complete

\* C37: the construction of a call graph ends.  With the functions cached,
\* a dispatched CalleeFuncList adds its node to the CallGraph and makes the
\* state send at most one CalleeFuncList request, for a called function
\* that has no node yet; once the server has answered every request and
\* the answers are dispatched, the data are complete, also when the
\* functions call each other or themselves.
Quiet(P) ==
  /\ P.wire = <<>>
  /\ P.commands = <<>>
  /\ Len(CalleeAnswers(P)) = Len(CalleeRequests(P))

C37_GraphConstructionEnds ==
  /\ [][\A p \in Procs : \A t \in AllTargets :
          LET s == "tsar-calleefunc"
              P == prj[p]
              Q == prj'[p]
          IN
          (Arrives(p, CalleeFuncListName(t)) /\ P.data[s] = "Functions") =>
             /\ \E n \in Q.CallGraph[1] : n[1] = t.FuncID
             /\ \/ /\ Q.requests = P.requests
                    /\ Q.Complete
                \/ \E c \in UNION {Callees(n[1]) : n \in Q.CallGraph[1]} :
                     /\ <<c, 0>> \notin Q.CallGraph[1]
                     /\ Q.requests = Append(P.requests,
                          CalleeFuncListName([FuncID |-> c, LoopID |-> 0,
                                              Attr |-> Q.Target[1].Attr]))]_vars
  /\ [](\A p \in Procs :
          LET P == prj[p] IN
          (/\ P.created /\ Quiet(P)
           /\ P.data["tsar-calleefunc"] = "Functions"
           /\ P.Target # <<>>) => P.Complete)

C37_Witness ==
  /\ prj[1].Complete
  /\ prj[1].Target = <<[FuncID |-> 3, LoopID |-> 0, Attr |-> 1]>>
  /\ prj[1].CallGraph = <<{<<3, 0>>, <<4, 0>>}>>
  /\ prj[1].shown["tsar-calleefunc"] = "graph"

\* C38: a CalleeFuncList for a loop that the cached target function does
\* not list neither fails nor completes the data: the state asks for the
\* loop tree, sends the CalleeFuncList request for the same target again
\* and resolves nothing to render.
C38_UnknownLoopIsRequested ==
  [][\A p \in Procs : \A t \in UnknownLoopTargets :
       LET s == "tsar-calleefunc"
           P == prj[p]
           Q == prj'[p]
       IN
       (/\ Arrives(p, CalleeFuncListName(t))
        /\ P.data[s] = "Functions"
        /\ P.Target = <<>>) =>
          /\ Q.internalErrors = P.internalErrors
          /\ Q.commands = Append(P.commands, "tsar.loop.tree")
          /\ Q.requests = Append(P.requests, CalleeFuncListName(t))
          /\ ~Q.Complete
          /\ Q.shown[s] # "graph"]_vars

\* C39: a transformation ends its Session.  Once a transformation command
\* has activated the state of the transformation, the dispatch of a
\* Diagnostic with Status Done sets the state inactive and starts the
\* tsar.stop command, whose run disposes the Project and removes it from
\* the registry; every other message leaves the state active.
Transform == "tsar-transform"

Summary == "tsar-main"

====
